---- MODULE Spec2Model ----
(***************************************************************************)
(* Rolling-horizon landing scheduler coupled to the per-minute aircraft    *)
(* simulator (src/Sim.1/sim.py, src/Sim/plane.py).                         *)
(*                                                                         *)
(* Units.  The working frame is one-dimensional: an aircraft's position    *)
(* is its signed coordinate on the line through its destination, counted   *)
(* in multiples of the comparison tolerance tol.  Every aircraft flies at  *)
(* the same cruise speed Speed (the constructor default), and every time   *)
(* (eta, delay, the oracle's assigned times) is stored multiplied by       *)
(* Speed, so that eta * speed of the source is the stored eta and          *)
(* dist / speed of the source is the stored dist: no fractions are needed  *)
(* and the oracle may still assign fractions of a minute.  One simulated   *)
(* minute is Speed time units.                                             *)
(***************************************************************************)
EXTENDS Integers, Sequences, FiniteSets, TLC

VARIABLES
    plane,      \* the roster: a sequence of aircraft records (sim.py:22)
    sep_t,      \* the separation matrix (sim.py:23)
    minute,     \* the simulated minute (sim.py:28)
    pc,         \* position in the main loop: "loop", "update", "done",
                \* "crashed" (ValueError), "infeasible" (the oracle's failure)
    idx,        \* position of "for pl in plane" (sim.py:53)
    valid,      \* sim.py:36, roster indices of the eligible aircraft
    depends,    \* sim.py:41
    proc_t,     \* sim.py:42
    sch,        \* sim.py:29/46, history of schedules
    name_list,  \* sim.py:31/48, history of participant names
    old,        \* history: the roster before the last step
    start,      \* history: the roster when the current tick began
    last,       \* history: the last step taken, [op, i], and nsch, the
                \* length of sch before it
    point       \* the value returned by a direct call of Arrival.get_point

vars == <<plane, sep_t, minute, pc, idx, valid, depends, proc_t, sch, name_list,
          old, start, last, point>>

(***************************************************************************)
(* Program constants and bounds                                            *)
(***************************************************************************)
tol == 1
SEC_PER_MIN == 60
skip == 50
PredGap == 10

Speed == 4
NPlanes == 2
MaxMinute == 52
LateArr == 45

OneMinute == Speed
None == <<>>

Abs(x) == IF x < 0 THEN -x ELSE x

Sign(x) == IF x < 0 THEN -1 ELSE IF x > 0 THEN 1 ELSE 0

Range(s) == {s[k] : k \in 1..Len(s)}

\* list.index: the first position holding x
IndexOf(s, x) == CHOOSE k \in 1..Len(s) : s[k] = x /\ \A j \in 1..(k-1) : s[j] # x

(***************************************************************************)
(* plane.py                                                                *)
(***************************************************************************)
\* The destination: the airport (the origin) for a physics aircraft, the
\* terminal waypoint for a track-replay aircraft.
Dest(p) == IF p.kind = "Arrival" THEN p.trail[1].x ELSE 0

Dist(p) == Abs(p.pos - Dest(p))

set_delay(p, delay) == [p EXCEPT !.delay = delay]

\* Variant of Plane.step without the hold branch: the aircraft flies on every tick
PlaneStep_noHold(p) ==
    IF Speed <= tol + Dist(p)
    THEN [p EXCEPT !.pos = p.pos + Speed * Sign(Dest(p) - p.pos),
                   !.path = @ + 1, !.delay = 0]
    ELSE [p EXCEPT !.pos = Dest(p), !.landed = TRUE, !.path = @ + 1, !.delay = 0]

\* Variant of Plane.step that records the delay with the opposite sign
PlaneStep_delaySign(p) ==
    IF Dist(p) + tol >= p.eta
    THEN IF Speed <= tol + Dist(p)
         THEN [p EXCEPT !.pos = p.pos + Speed * Sign(Dest(p) - p.pos),
                        !.path = @ + 1, !.delay = 0]
         ELSE [p EXCEPT !.pos = Dest(p), !.landed = TRUE,
                        !.path = @ + 1, !.delay = 0]
    ELSE set_delay(p, p.eta - Dist(p))

\* Variant of Plane.step that tests the proximity first: it lands within one
\* tick's travel whatever the eta is
PlaneStep_landNear(p) ==
    IF Speed > tol + Dist(p)
    THEN [p EXCEPT !.pos = Dest(p), !.landed = TRUE, !.path = @ + 1, !.delay = 0]
    ELSE IF Dist(p) + tol >= p.eta
         THEN [p EXCEPT !.pos = p.pos + Speed * Sign(Dest(p) - p.pos),
                        !.path = @ + 1, !.delay = 0]
         ELSE set_delay(p, Dist(p) - p.eta)

\* Variant of Plane.step whose hold test allows one tick's travel of slack
PlaneStep_wideSlack(p) ==
    IF Dist(p) + Speed >= p.eta
    THEN IF Speed <= tol + Dist(p)
         THEN [p EXCEPT !.pos = p.pos + Speed * Sign(Dest(p) - p.pos),
                        !.path = @ + 1, !.delay = 0]
         ELSE [p EXCEPT !.pos = Dest(p), !.landed = TRUE,
                        !.path = @ + 1, !.delay = 0]
    ELSE set_delay(p, Dist(p) - p.eta)

\* Plane.step
PlaneStep(p) ==
    IF Dist(p) + tol >= p.eta
    THEN IF Speed <= tol + Dist(p)
         THEN [p EXCEPT !.pos = p.pos + Speed * Sign(Dest(p) - p.pos),
                        !.path = @ + 1, !.delay = 0]
         ELSE [p EXCEPT !.pos = Dest(p), !.landed = TRUE,
                        !.path = @ + 1, !.delay = 0]
    ELSE set_delay(p, Dist(p) - p.eta)

\* numpy.interp(x, [x0, x1], [f0, f1]) with x0 < x1: clamped outside [x0, x1]
Interp(x, x0, x1, f0, f1) ==
    IF x <= x0 THEN f0
    ELSE IF x >= x1 THEN f1
    ELSE f0 + ((x - x0) * (f1 - f0)) \div (x1 - x0)

\* The first index of the trail (terminal waypoint first) whose time has been
\* reached, 0 when there is none.
FirstReached(trail, m) ==
    IF \E k \in 1..Len(trail) : trail[k].ts <= (m + 1) * SEC_PER_MIN
    THEN CHOOSE k \in 1..Len(trail) :
            /\ trail[k].ts <= (m + 1) * SEC_PER_MIN
            /\ \A j \in 1..(k-1) : ~(trail[j].ts <= (m + 1) * SEC_PER_MIN)
    ELSE 0

\* Arrival.get_point: <<>> stands for None, <<pt>> for a returned point
get_point(trail, m) ==
    LET k == FirstReached(trail, m) IN
    IF k = 0 THEN None
    ELSE IF k = 1 THEN <<trail[1]>>
    ELSE LET pt0 == trail[k]
             pt1 == trail[k-1]
         IN <<[ts |-> Interp(m * SEC_PER_MIN, pt0.ts, pt1.ts, pt0.ts, pt1.ts),
               x  |-> Interp(m * SEC_PER_MIN, pt0.ts, pt1.ts, pt0.x, pt1.x)]>>

\* Arrival.step
ArrivalStep(p, m) ==
    IF p.delay + p.eta <= (m + 1) * OneMinute
    THEN [p EXCEPT !.landed = TRUE, !.pos = Dest(p)]
    ELSE LET new_point == get_point(p.trail, m + 1)
             q == set_delay(p, Dist(p) - p.eta)
         IN IF new_point # None
            THEN [q EXCEPT !.pos = new_point[1].x]
            ELSE q

Step(p, m) == IF p.kind = "Arrival" THEN ArrivalStep(p, m) ELSE PlaneStep(p)

\* Variant of Plane.update that steps whatever the predecessor's landed flag is
Update_ungated(p, pred_landed, m) ==
    IF ~p.landed /\ p.arrived
    THEN [Step(p, m) EXCEPT !.eta = @ - OneMinute]
    ELSE IF ~p.arrived /\ p.arr_time # None
         THEN IF m + 1 >= p.arr_time[1] THEN [p EXCEPT !.arrived = TRUE] ELSE p
         ELSE p

\* Variant of Plane.update with the decrement inside the pred_landed branch
Update_decWhenStepped(p, pred_landed, m) ==
    IF ~p.landed /\ p.arrived
    THEN IF pred_landed THEN [Step(p, m) EXCEPT !.eta = @ - OneMinute] ELSE p
    ELSE IF ~p.arrived /\ p.arr_time # None
         THEN IF m + 1 >= p.arr_time[1] THEN [p EXCEPT !.arrived = TRUE] ELSE p
         ELSE p

\* Variant of Plane.update without the countdown of eta
Update_noCountdown(p, pred_landed, m) ==
    IF ~p.landed /\ p.arrived
    THEN IF pred_landed THEN Step(p, m) ELSE p
    ELSE IF ~p.arrived /\ p.arr_time # None
         THEN IF m + 1 >= p.arr_time[1] THEN [p EXCEPT !.arrived = TRUE] ELSE p
         ELSE p

\* Variant of Plane.update that resets arrived when the aircraft lands
Update_clearsArrived(p, pred_landed, m) ==
    IF ~p.landed /\ p.arrived
    THEN LET q == IF pred_landed THEN Step(p, m) ELSE p
         IN [q EXCEPT !.eta = @ - OneMinute, !.arrived = ~q.landed]
    ELSE IF ~p.arrived /\ p.arr_time # None
         THEN IF m + 1 >= p.arr_time[1] THEN [p EXCEPT !.arrived = TRUE] ELSE p
         ELSE p

\* Plane.update, with pred_landed read by the caller from the roster
Update(p, pred_landed, m) ==
    IF ~p.landed /\ p.arrived
    THEN LET q == IF pred_landed THEN Step(p, m) ELSE p
         IN [q EXCEPT !.eta = @ - OneMinute]
    ELSE IF ~p.arrived /\ p.arr_time # None
         THEN IF m + 1 >= p.arr_time[1] THEN [p EXCEPT !.arrived = TRUE] ELSE p
         ELSE p

\* Variant of plane.py:63-66 that reads the predecessor's flag as it was when
\* the tick began
PredLanded_atTickStart(pl, i) ==
    IF pl[i].pred # 0 THEN start[pl[i].pred].landed ELSE TRUE

\* plane.py:63-66
PredLanded(pl, i) == IF pl[i].pred # 0 THEN pl[pl[i].pred].landed ELSE TRUE

\* Plane.__init__: arrived unless a configured arrival time exceeds 1
InitArrived(arr_time) == ~(arr_time # None /\ arr_time[1] > 1)

\* Plane.get_eta: the flight time at cruise speed (stored times speed: the distance)
get_eta(pos) == Abs(pos)

\* Plane.__init__ for a physics aircraft; pred_eta is <<>> or <<pred.eta>>;
\* path is the length of coord_path
NewPlane(c, pred_eta) ==
    [kind |-> "Plane", name |-> c.name, class_num |-> c.class_num,
     pos |-> c.pos, path |-> 1, landed |-> FALSE,
     pred |-> c.pred, arr_time |-> c.arr_time, trail |-> <<>>,
     eta |-> get_eta(c.pos)
             + (IF pred_eta # None THEN pred_eta[1] + PredGap * OneMinute ELSE 0),
     delay |-> 0,
     arrived |-> InitArrived(c.arr_time)]

\* Arrival.__init__: no destination airport, no predecessor, eta is the
\* terminal waypoint's timestamp
NewArrival(c) ==
    [kind |-> "Arrival", name |-> c.name, class_num |-> c.class_num,
     pos |-> c.pos, path |-> 1, landed |-> FALSE,
     pred |-> 0, arr_time |-> c.arr_time, trail |-> c.trail,
     eta |-> c.trail[1].ts * OneMinute,
     delay |-> 0,
     arrived |-> InitArrived(c.arr_time)]

\* loadplane: the roster built from its configuration, predecessors first
RECURSIVE Build(_, _)
Build(cfg, i) ==
    IF cfg[i].kind = "Arrival" THEN NewArrival(cfg[i])
    ELSE NewPlane(cfg[i],
                  IF cfg[i].pred # 0 THEN <<Build(cfg, cfg[i].pred).eta>> ELSE None)

(***************************************************************************)
(* The inputs: rosters and separation matrices                             *)
(***************************************************************************)
Ids == 1..NPlanes

Trail1 == <<[ts |-> 2 * SEC_PER_MIN, x |-> 0],
            [ts |-> SEC_PER_MIN,     x |-> Speed],
            [ts |-> 0,               x |-> 2 * Speed]>>

ArrTimes == {None, <<1>>, <<2>>, <<LateArr>>}

ReplayArrTimes == {None, <<2>>}

\* Close enough to land in the first step, or far enough to be in flight still
\* when the second scheduling cycle runs
StartPos == {Speed - 2, skip * Speed + 3}

PlaneCfgs(names, classes) ==
    [kind : {"Plane"}, name : names, class_num : classes, pos : StartPos,
     pred : {0} \cup Ids, arr_time : ArrTimes, trail : {<<>>}]

ArrivalCfgs(names, classes) ==
    {[kind |-> "Arrival", name |-> n, class_num |-> c, pos |-> t[Len(t)].x,
      pred |-> 0, arr_time |-> a, trail |-> t] :
        n \in names, c \in classes, a \in ReplayArrTimes, t \in {Trail1}}

\* The precedence forest: following the references from any aircraft ends
RECURSIVE ReachesRoot(_, _, _)
ReachesRoot(cfg, i, n) ==
    IF cfg[i].pred = 0 THEN TRUE
    ELSE IF n = 0 THEN FALSE
    ELSE ReachesRoot(cfg, cfg[i].pred, n - 1)

Acyclic(cfg) == \A i \in Ids : ReachesRoot(cfg, i, NPlanes)

NameOf(i) == <<"a", "b", "c", "d">>[i]

ClassOf(i) == ((i - 1) % 2) + 1

SepT == <<<<1, 2>>, <<3, 1>>>>

Rosters ==
    {cfg \in [Ids -> PlaneCfgs({"a", "b", "c", "d"}, {1, 2})
                     \cup ArrivalCfgs({"a", "b", "c", "d"}, {1, 2})] :
        /\ \A i \in Ids : cfg[i].name = NameOf(i) /\ cfg[i].class_num = ClassOf(i)
        /\ Acyclic(cfg)}

(***************************************************************************)
(* sim.py: the main loop                                                   *)
(***************************************************************************)
AllLanded(pl) == \A i \in 1..Len(pl) : pl[i].landed

\* sim.py:36
ValidOf(pl) ==
    SelectSeq([i \in 1..Len(pl) |-> i], LAMBDA i : ~pl[i].landed /\ pl[i].arrived)

\* sim.py:41 raises ValueError: list.index of a predecessor that is not in valid
DependsRaises(pl, v) ==
    \E k \in 1..Len(v) :
        /\ pl[v[k]].pred # 0
        /\ ~pl[pl[v[k]].pred].landed
        /\ pl[v[k]].pred \notin Range(v)

\* sim.py:41
DependsOf(pl, v) ==
    [k \in 1..Len(v) |->
        IF pl[v[k]].pred # 0 /\ ~pl[pl[v[k]].pred].landed
        THEN IndexOf(v, pl[v[k]].pred)
        ELSE 0]

\* sim.py:42
ProcT(pl, v, sep) ==
    [i \in 1..Len(v) |->
        [k \in 1..Len(v) |->
            IF pl[v[i]].name # pl[v[k]].name
            THEN sep[pl[v[i]].class_num][pl[v[k]].class_num]
            ELSE 0]]

\* sim.py:43
NamesOf(pl, v) == [k \in 1..Len(v) |-> pl[v[k]].name]

\* Variant of sim.py:49-51 that writes the schedule to every eligible aircraft
Apply_all(pl, v, schedule) ==
    [i \in 1..Len(pl) |->
        IF i \in Range(v)
        THEN [pl[i] EXCEPT !.eta = schedule[IndexOf(v, i)]]
        ELSE pl[i]]

\* sim.py:49-51
Apply(pl, v, schedule) ==
    [i \in 1..Len(pl) |->
        IF i \in Range(v) /\ pl[i].pred = 0
        THEN [pl[i] EXCEPT !.eta = schedule[IndexOf(v, i)]]
        ELSE pl[i]]

\* The oracle's assigned times (solve is a black box): any of these per
\* aircraft, a slot inside the coming minute or one beyond the next cycle
SchedTimes == {OneMinute - 1, (skip + 1) * OneMinute}

Init ==
    /\ \E cfg \in Rosters : plane = [i \in Ids |-> Build(cfg, i)]
    /\ sep_t = SepT
    /\ minute = 0
    /\ pc = "loop"
    /\ idx = 0
    /\ valid = <<>>
    /\ depends = <<>>
    /\ proc_t = <<>>
    /\ sch = <<>>
    /\ name_list = <<>>
    /\ old = plane
    /\ start = plane
    /\ last = [op |-> "init", i |-> 0, nsch |-> Len(sch)]
    /\ point = None

\* Variant of sim.py:35 that skips the cycle of minute 0
IsCadence_notAtStart(m) == m % skip = 0 /\ m # 0

\* sim.py:35
IsCadence(m) == m % skip = 0

\* sim.py:32, the while test fails
LoopExit ==
    /\ pc = "loop"
    /\ AllLanded(plane)
    /\ pc' = "done"
    /\ old' = plane
    /\ last' = [op |-> "exit", i |-> 0, nsch |-> Len(sch)]
    /\ UNCHANGED <<start, plane, point, sep_t, minute, idx, valid, depends, proc_t, sch,
                   name_list>>

\* sim.py:35, not a cadence minute
NoCycle ==
    /\ pc = "loop"
    /\ ~AllLanded(plane)
    /\ minute < MaxMinute
    /\ ~IsCadence(minute)
    /\ pc' = "update"
    /\ idx' = 1
    /\ old' = plane
    /\ start' = plane
    /\ last' = [op |-> "nocycle", i |-> 0, nsch |-> Len(sch)]
    /\ UNCHANGED <<plane, point, sep_t, minute, valid, depends, proc_t, sch, name_list>>

\* sim.py:36-41, the dependency list raises: the program stops
DependsError ==
    /\ pc = "loop"
    /\ ~AllLanded(plane)
    /\ minute < MaxMinute
    /\ IsCadence(minute)
    /\ DependsRaises(plane, ValidOf(plane))
    /\ valid' = ValidOf(plane)
    /\ pc' = "crashed"
    /\ old' = plane
    /\ start' = plane
    /\ last' = [op |-> "crash", i |-> 0, nsch |-> Len(sch)]
    /\ UNCHANGED <<plane, point, sep_t, minute, idx, depends, proc_t, sch, name_list>>

\* sim.py:36-44, nothing is eligible
EmptyCycle ==
    /\ pc = "loop"
    /\ ~AllLanded(plane)
    /\ minute < MaxMinute
    /\ IsCadence(minute)
    /\ ValidOf(plane) = <<>>
    /\ valid' = <<>>
    /\ depends' = <<>>
    /\ proc_t' = <<>>
    /\ pc' = "update"
    /\ idx' = 1
    /\ old' = plane
    /\ start' = plane
    /\ last' = [op |-> "empty", i |-> 0, nsch |-> Len(sch)]
    /\ UNCHANGED <<plane, point, sep_t, minute, sch, name_list>>

\* sim.py:36-51, a scheduling cycle
SchedulingCycle ==
    /\ pc = "loop"
    /\ ~AllLanded(plane)
    /\ minute < MaxMinute
    /\ IsCadence(minute)
    /\ ValidOf(plane) # <<>>
    /\ ~DependsRaises(plane, ValidOf(plane))
    /\ valid' = ValidOf(plane)
    /\ depends' = DependsOf(plane, valid')
    /\ proc_t' = ProcT(plane, valid', sep_t)
    /\ \E schedule \in [1..Len(ValidOf(plane)) -> SchedTimes] :
          /\ sch' = Append(sch, schedule)
          /\ plane' = Apply(plane, ValidOf(plane), schedule)
    /\ name_list' = Append(name_list, NamesOf(plane, valid'))
    /\ pc' = "update"
    /\ idx' = 1
    /\ old' = plane
    /\ start' = plane
    /\ last' = [op |-> "cycle", i |-> 0, nsch |-> Len(sch)]
    /\ UNCHANGED <<point, sep_t, minute>>

\* The oracle's failure (solve is a black box): it may find any instance
\* infeasible, and reports it by raising InfeasibleSchedule
InfeasibleSchedule(v) == v # <<>>

\* Variant of sim.py:44-52 that catches the oracle's failure, records an empty
\* schedule and goes on to the updates of the tick
OracleInfeasible_skipped ==
    /\ pc = "loop"
    /\ ~AllLanded(plane)
    /\ minute < MaxMinute
    /\ IsCadence(minute)
    /\ ~DependsRaises(plane, ValidOf(plane))
    /\ InfeasibleSchedule(ValidOf(plane))
    /\ valid' = ValidOf(plane)
    /\ depends' = DependsOf(plane, valid')
    /\ proc_t' = ProcT(plane, valid', sep_t)
    /\ sch' = Append(sch, <<>>)
    /\ name_list' = Append(name_list, NamesOf(plane, valid'))
    /\ pc' = "update"
    /\ idx' = 1
    /\ old' = plane
    /\ start' = plane
    /\ last' = [op |-> "infeasible", i |-> 0, nsch |-> Len(sch)]
    /\ UNCHANGED <<plane, point, sep_t, minute>>

\* sim.py:36-45, the oracle reports that no schedule is feasible: solve raises,
\* nothing handles it and the program stops at line 45
OracleInfeasible ==
    /\ pc = "loop"
    /\ ~AllLanded(plane)
    /\ minute < MaxMinute
    /\ IsCadence(minute)
    /\ ~DependsRaises(plane, ValidOf(plane))
    /\ InfeasibleSchedule(ValidOf(plane))
    /\ valid' = ValidOf(plane)
    /\ depends' = DependsOf(plane, valid')
    /\ proc_t' = ProcT(plane, valid', sep_t)
    /\ pc' = "infeasible"
    /\ old' = plane
    /\ start' = plane
    /\ last' = [op |-> "infeasible", i |-> 0, nsch |-> Len(sch)]
    /\ UNCHANGED <<plane, point, sep_t, minute, idx, sch, name_list>>

\* sim.py:53-56, pl.update for the next aircraft of the roster; after the last
\* one the minute advances
UpdatePlane ==
    /\ pc = "update"
    /\ plane' = [plane EXCEPT ![idx] = Update(plane[idx], PredLanded(plane, idx), minute)]
    /\ IF idx = Len(plane)
       THEN /\ pc' = "loop"
            /\ idx' = 0
            /\ minute' = minute + 1
       ELSE /\ idx' = idx + 1
            /\ UNCHANGED <<pc, minute>>
    /\ old' = plane
    /\ last' = [op |-> "update", i |-> idx, nsch |-> Len(sch)]
    /\ UNCHANGED <<start, point, sep_t, valid, depends, proc_t, sch, name_list>>

Next ==
    \/ LoopExit
    \/ NoCycle
    \/ DependsError
    \/ EmptyCycle
    \/ SchedulingCycle
    \/ OracleInfeasible
    \/ UpdatePlane

Spec == Init /\ [][Next]_vars

(***************************************************************************)
(* The instance builder on its own: rosters with free names and classes,   *)
(* any separation matrix, one scheduling cycle                             *)
(***************************************************************************)
Names == {"a", "b"}

Classes == {1, 2}

SepMatrices == [Classes -> [Classes -> {1, 3}]]

ProcRosters ==
    {cfg \in [Ids -> PlaneCfgs(Names, Classes)] :
        \A i \in Ids : /\ cfg[i].pos = Speed - 2
                       /\ cfg[i].pred = 0
                       /\ cfg[i].arr_time \in {None, <<2>>}}

InitProc ==
    /\ \E cfg \in ProcRosters : plane = [i \in Ids |-> Build(cfg, i)]
    /\ sep_t \in SepMatrices
    /\ minute = 0
    /\ pc = "loop"
    /\ idx = 0
    /\ valid = <<>>
    /\ depends = <<>>
    /\ proc_t = <<>>
    /\ sch = <<>>
    /\ name_list = <<>>
    /\ old = plane
    /\ start = plane
    /\ last = [op |-> "init", i |-> 0, nsch |-> Len(sch)]
    /\ point = None

NextProc == SchedulingCycle

SpecProc == InitProc /\ [][NextProc]_vars

(***************************************************************************)
(* Arrival.get_point on its own: one call on a trail at a minute           *)
(***************************************************************************)
MaxPointMinute == 4

MaxTrail == 3

HalfMinute == SEC_PER_MIN \div 2

\* Waypoint times, in seconds, every half minute up to the last minute
PointTimes == {HalfMinute * k : k \in 0..(2 * MaxPointMinute)}

\* A recorded waypoint: the position falls linearly with time along the track
Waypoint(ts) == [ts |-> ts, x |-> SEC_PER_MIN * MaxPointMinute - ts]

\* Trails, the terminal waypoint first and the times strictly decreasing
Trails ==
    {tr \in UNION {[1..n -> PointTimes] : n \in 1..MaxTrail} :
        \A k \in 1..(Len(tr) - 1) : tr[k] > tr[k + 1]}

InitPoint ==
    /\ \E tr \in Trails :
          plane = <<NewArrival([name |-> "a", class_num |-> 1,
                                pos |-> Waypoint(tr[Len(tr)]).x,
                                arr_time |-> None,
                                trail |-> [k \in 1..Len(tr) |-> Waypoint(tr[k])]])>>
    /\ sep_t = SepT
    /\ minute \in 0..MaxPointMinute
    /\ pc = "call"
    /\ idx = 0
    /\ valid = <<>>
    /\ depends = <<>>
    /\ proc_t = <<>>
    /\ sch = <<>>
    /\ name_list = <<>>
    /\ old = plane
    /\ start = plane
    /\ last = [op |-> "init", i |-> 0, nsch |-> 0]
    /\ point = None

\* Arrival.get_point(trail, minute)
GetPoint ==
    /\ pc = "call"
    /\ point' = get_point(plane[1].trail, minute)
    /\ pc' = "returned"
    /\ last' = [op |-> "get_point", i |-> 1, nsch |-> 0]
    /\ UNCHANGED <<plane, sep_t, minute, idx, valid, depends, proc_t, sch,
                   name_list, old, start>>

NextPoint == GetPoint

SpecPoint == InitPoint /\ [][NextPoint]_vars

(***************************************************************************)
(* Properties                                                              *)
(***************************************************************************)
\* The minute of the tick the last step belongs to (the minute advances with
\* the update of the last aircraft of the roster)
TickMinute == IF last.op = "update" /\ pc = "loop" THEN minute - 1 ELSE minute

Active(p) == p.arrived /\ ~p.landed

\* The aircraft updated last was gated: active, with an unlanded predecessor
GatedUpdate ==
    /\ last.op = "update"
    /\ Active(old[last.i])
    /\ old[last.i].pred # 0
    /\ ~old[old[last.i].pred].landed

\* The physics aircraft updated last was active and released
ReleasedUpdate ==
    /\ last.op = "update"
    /\ old[last.i].kind = "Plane"
    /\ Active(old[last.i])
    /\ PredLanded(old, last.i)

\* C1: after a scheduling cycle every eligible aircraft whose dependency index
\* is 0 (predecessor absent or landed) carries the eta the oracle assigned to
\* its own index.
C1_RootsGetSchedule ==
    last.op = "cycle" =>
        \A k \in 1..Len(valid) :
            depends[k] = 0 => plane[valid[k]].eta = sch[Len(sch)][k]

\* C2: every scheduling cycle computes the dependency list without error: the
\* program never stops in it, and each index is the predecessor's 1-based
\* position in the eligible list when the predecessor is eligible, else 0.
C2_DependsComputed ==
    /\ last.op # "crash"
    /\ last.op = "cycle" =>
          \A k \in 1..Len(valid) :
              depends[k] = IF /\ old[valid[k]].pred # 0
                              /\ old[valid[k]].pred \in Range(valid)
                           THEN IndexOf(valid, old[valid[k]].pred)
                           ELSE 0

\* C3: a scheduling cycle leaves the eta of every aircraft with a nonzero
\* dependency index, and of every aircraft that is not eligible, as it was.
C3_NonRootsKeepEta ==
    last.op \in {"cycle", "empty", "crash"} =>
        \A i \in 1..Len(plane) :
            (\/ last.op # "cycle"
             \/ i \notin Range(valid)
             \/ depends[IndexOf(valid, i)] # 0)
            => plane[i].eta = old[i].eta

\* A cycle that rescheduled one aircraft and left a dependent one alone
C3_Witness ==
    /\ last.op = "cycle"
    /\ \E k \in 1..Len(valid) : depends[k] # 0
    /\ \E i \in 1..Len(plane) : plane[i].eta # old[i].eta

\* C4: the update of a gated aircraft leaves its position, landed flag and
\* recorded delay alone and reduces its eta by one minute.
C4_GatedFrozen ==
    GatedUpdate =>
        /\ plane[last.i].pos = old[last.i].pos
        /\ plane[last.i].landed = old[last.i].landed
        /\ plane[last.i].delay = old[last.i].delay
        /\ plane[last.i].eta = old[last.i].eta - OneMinute

\* A gated update that took the eta below zero
C4_Witness == GatedUpdate /\ plane[last.i].eta < 0 /\ old[last.i].eta >= 0

\* C5: an update reduces the eta by one minute exactly when the aircraft was
\* active when it began, and no step changes the eta of a landed aircraft.
C5_EtaCountdown ==
    /\ last.op = "update" =>
          plane[last.i].eta =
              IF Active(old[last.i]) THEN old[last.i].eta - OneMinute
              ELSE old[last.i].eta
    /\ \A i \in 1..Len(plane) : old[i].landed => plane[i].eta = old[i].eta

\* An aircraft lands, its eta counting down in that very update, while another
\* aircraft has landed before
C5_Witness ==
    /\ last.op = "update"
    /\ plane[last.i].landed /\ ~old[last.i].landed
    /\ plane[last.i].eta = old[last.i].eta - OneMinute
    /\ \E j \in 1..Len(plane) : old[j].landed

\* C6: landed and arrived never revert, for either kind of aircraft.
C6_Latches ==
    \A i \in 1..Len(plane) :
        /\ old[i].landed => plane[i].landed
        /\ old[i].arrived => plane[i].arrived

\* A landed track-replay aircraft is updated again
C6_Witness ==
    /\ last.op = "update"
    /\ old[last.i].landed
    /\ old[last.i].kind = "Arrival"
    /\ \E j \in 1..Len(plane) : plane[j].kind = "Plane" /\ plane[j].landed

\* C7: the update of a physics aircraft moves it by at most Speed unless it
\* lands on its destination; a released aircraft that flies without landing
\* moves exactly Speed toward the destination; on a hold or a gated tick, and
\* when it is not active, it does not move.
C7_KinematicBound ==
    (last.op = "update" /\ old[last.i].kind = "Plane") =>
        LET o == old[last.i]
            n == plane[last.i]
            landing == n.landed /\ ~o.landed
        IN /\ Abs(n.pos - o.pos) <= Speed \/ (landing /\ n.pos = Dest(n))
           /\ landing => n.pos = Dest(n) /\ Abs(n.pos - o.pos) < Speed
           /\ (ReleasedUpdate /\ Dist(o) + tol >= o.eta /\ ~landing)
                 => n.pos - o.pos = Speed * Sign(Dest(o) - o.pos)
           /\ (~ReleasedUpdate \/ ~(Dist(o) + tol >= o.eta))
                 => n.pos = o.pos

\* A hold tick followed the oracle's assignment: the aircraft stayed in place
C7_Witness ==
    /\ ReleasedUpdate
    /\ ~(Dist(old[last.i]) + tol >= old[last.i].eta)
    /\ plane[last.i].pos = old[last.i].pos
    /\ plane[last.i].pos # Dest(plane[last.i])

\* C8: the loop stops only by its all-landed test: whenever the program has
\* stopped, every aircraft has landed.
C8_StopsOnlyAllLanded == pc \in {"done", "crashed"} => AllLanded(plane)

\* C9: in every instance processingTime[i][j] is the separation of the two
\* classes for different positions and 0 exactly on the diagonal.
C9_ProcTimeByPosition ==
    last.op = "cycle" =>
        \A i, j \in 1..Len(valid) :
            /\ proc_t[i][j] = IF i # j
                              THEN sep_t[plane[valid[i]].class_num][plane[valid[j]].class_num]
                              ELSE 0
            /\ proc_t[i][j] = 0 <=> i = j

\* C10: an aircraft with arrival time T takes no part in a tick whose minute
\* is below T (not eligible, not moved, eta not reduced) and is arrived in
\* every tick from minute T on.
C10_ArrivalTime ==
    /\ last.op \in {"cycle", "crash"} =>
          \A k \in 1..Len(valid) :
              plane[valid[k]].arr_time # None => minute >= plane[valid[k]].arr_time[1]
    /\ (last.op = "update" /\ old[last.i].arr_time # None) =>
          IF TickMinute < old[last.i].arr_time[1]
          THEN /\ plane[last.i].pos = old[last.i].pos
               /\ plane[last.i].eta = old[last.i].eta
          ELSE old[last.i].arrived

\* C11: when the oracle reports infeasibility the program stops in that cycle:
\* no aircraft is changed, nothing is appended to the history, and no update of
\* that tick follows.
C11_InfeasibleStops ==
    last.op = "infeasible" =>
        /\ pc = "infeasible"
        /\ plane = old
        /\ Len(sch) = last.nsch
        /\ Len(name_list) = last.nsch

\* The oracle fails in the second cycle, after a first schedule was applied
C11_Witness ==
    /\ last.op = "infeasible"
    /\ minute = skip
    /\ Len(sch) = 1
    /\ \E i \in 1..Len(plane) : plane[i].landed

\* C12: a released physics aircraft whose required time is below its eta by
\* more than the tolerance holds: it stays in place, not landed, and records
\* the negative delay required - eta; otherwise it is in the full-speed branch
\* (it advances by Speed or lands) and records the delay 0.
C12_HoldOrFly ==
    ReleasedUpdate =>
        LET o == old[last.i]
            n == plane[last.i]
        IN IF Dist(o) + tol < o.eta
           THEN /\ n.pos = o.pos
                /\ ~n.landed
                /\ n.delay = Dist(o) - o.eta
                /\ n.delay < 0
           ELSE /\ n.delay = 0
                /\ \/ n.landed /\ n.pos = Dest(n)
                   \/ ~n.landed /\ n.pos - o.pos = Speed * Sign(Dest(o) - o.pos)

\* An aircraft holds on the slot the oracle has just assigned to it
C12_Witness ==
    /\ ReleasedUpdate
    /\ last.i \in Range(valid)
    /\ IsCadence(TickMinute)
    /\ old[last.i].eta = sch[Len(sch)][IndexOf(valid, last.i)]
    /\ plane[last.i].delay = Dist(old[last.i]) - old[last.i].eta
    /\ plane[last.i].delay < 0

\* C13: the scheduler runs on exactly the ticks whose minute is a multiple of
\* skip, before the first update of that minute; the eta it assigns is the one
\* that tick's update decides on and then reduces by one minute; on any other
\* tick, or with nothing eligible, no aircraft is changed and nothing is
\* appended to the history.
C13_CadenceOrder ==
    /\ last.op \in {"cycle", "empty", "crash", "infeasible"} => minute % skip = 0
    /\ last.op = "nocycle" => minute % skip # 0
    /\ (pc = "update" /\ idx = 1) =>
          /\ last.op \in {"cycle", "empty", "nocycle"}
          /\ last.op = "cycle" <=> (minute % skip = 0 /\ ValidOf(start) # <<>>)
    /\ last.op = "cycle" =>
          /\ pc = "update" /\ idx = 1
          /\ Len(sch) = last.nsch + 1 /\ Len(name_list) = last.nsch + 1
    /\ last.op \in {"nocycle", "empty"} =>
          /\ plane = old
          /\ Len(sch) = last.nsch /\ Len(name_list) = last.nsch
    /\ (/\ last.op = "update"
        /\ TickMinute % skip = 0
        /\ last.i \in Range(valid)
        /\ old[last.i].pred = 0) =>
          LET o == old[last.i]
              n == plane[last.i]
              s == sch[Len(sch)][IndexOf(valid, last.i)]
          IN /\ o.eta = s
             /\ n.eta = s - OneMinute
             /\ o.kind = "Plane" =>
                   n.delay = IF Dist(o) + tol < s THEN Dist(o) - s ELSE 0

\* In the cycle of minute skip an aircraft is given a slot, flies on it and
\* counts it down in the same tick
C13_Witness ==
    /\ last.op = "update"
    /\ TickMinute = skip
    /\ last.i \in Range(valid)
    /\ old[last.i].pred = 0
    /\ old[last.i].kind = "Plane"
    /\ old[last.i].eta # start[last.i].eta
    /\ plane[last.i].pos # old[last.i].pos
    /\ plane[last.i].eta = sch[Len(sch)][IndexOf(valid, last.i)] - OneMinute

\* step was called in the update that took o to n (a hold rewrites the delay,
\* a flight moves the aircraft, a landing sets the flag)
StepTaken(o, n) == n.pos # o.pos \/ n.landed # o.landed \/ n.delay # o.delay

\* C14: aircraft are updated in stored order and a dependent reads its
\* predecessor's current flag.  A predecessor stored before the dependent that
\* lands in this tick releases it in this tick (its first step); one stored
\* after it leaves it gated for the whole tick, also when the predecessor
\* lands in it, and the dependent steps in the first tick that begins with the
\* predecessor landed.
C14_StoredOrder ==
    /\ (last.op = "update" /\ Active(old[last.i]) /\ old[last.i].pred # 0) =>
          LET i == last.i
              p == old[last.i].pred
          IN /\ (~start[p].landed /\ p < i /\ old[p].landed) =>
                   /\ old[i].path = 1 /\ old[i].delay = 0
                   /\ StepTaken(old[i], plane[i])
             /\ (~start[p].landed /\ p > i) => ~StepTaken(old[i], plane[i])
             /\ start[p].landed => StepTaken(old[i], plane[i])
    /\ (last.op = "update" /\ plane[last.i].landed /\ ~old[last.i].landed) =>
          \A i \in 1..(last.i - 1) :
              (plane[i].pred = last.i /\ Active(start[i])) =>
                  /\ ~StepTaken(start[i], plane[i])
                  /\ plane[i].eta = start[i].eta - OneMinute

\* The predecessor is stored first and lands; the dependent steps in that tick
C14_Witness ==
    /\ last.op = "update"
    /\ Active(old[last.i])
    /\ old[last.i].pred # 0
    /\ old[last.i].pred < last.i
    /\ ~start[old[last.i].pred].landed
    /\ old[old[last.i].pred].landed
    /\ StepTaken(old[last.i], plane[last.i])

\* The predecessor is stored last and lands; the dependent was gated in that tick
C14_WitnessDeferred ==
    /\ last.op = "update"
    /\ plane[last.i].landed /\ ~old[last.i].landed
    /\ \E i \in 1..(last.i - 1) :
          /\ plane[i].pred = last.i
          /\ Active(start[i])
          /\ ~StepTaken(start[i], plane[i])

\* C15: a physics aircraft becomes landed only in its own update, when it is
\* arrived, its predecessor has landed, it is in the full-speed branch and is
\* closer than one tick's travel, and it is then put on the destination; so a
\* landed physics aircraft is arrived and on its destination, and stays there.
C15_LandingOnly ==
    \A i \in 1..Len(plane) :
        plane[i].kind = "Plane" =>
            /\ plane[i].landed => plane[i].arrived /\ plane[i].pos = Dest(plane[i])
            /\ old[i].landed => plane[i].pos = old[i].pos
            /\ (plane[i].landed /\ ~old[i].landed) =>
                  /\ last.op = "update" /\ last.i = i
                  /\ old[i].arrived
                  /\ PredLanded(old, i)
                  /\ Dist(old[i]) + tol >= old[i].eta
                  /\ Dist(old[i]) < Speed

\* A dependent aircraft lands, off its destination until then
C15_Witness ==
    /\ last.op = "update"
    /\ plane[last.i].kind = "Plane"
    /\ plane[last.i].pred # 0
    /\ plane[last.i].landed /\ ~old[last.i].landed
    /\ old[last.i].pos # Dest(old[last.i])

\* The track-replay aircraft updated last was active (it has no predecessor)
ArrivalUpdate ==
    /\ last.op = "update"
    /\ old[last.i].kind = "Arrival"
    /\ Active(old[last.i])

\* Minute t is at or after the terminal waypoint's time (recorded in seconds)
\* plus the delay the aircraft carries
Due(o, t) ==
    SEC_PER_MIN * t * OneMinute >= o.trail[1].ts * OneMinute + SEC_PER_MIN * o.delay

\* C16: a track-replay aircraft lands, on its final destination, in the tick
\* whose time (the tick's minute, or the minute it leads to) is at or after the
\* terminal waypoint's time plus its delay; in an earlier tick it stays not
\* landed, records the delay (time to the final destination) - eta and takes
\* the position get_point returns, if any.
C16_ReplayLanding ==
    ArrivalUpdate =>
        LET o == old[last.i]
            n == plane[last.i]
            pt == get_point(o.trail, TickMinute + 1)
        IN \E t \in {TickMinute, TickMinute + 1} :
              IF Due(o, t)
              THEN n.landed /\ n.pos = Dest(o)
              ELSE /\ ~n.landed
                   /\ n.delay = Dist(o) - o.eta
                   /\ n.pos = IF pt # None THEN pt[1].x ELSE o.pos

\* The physics aircraft updated last flew at full speed in the tick before (its
\* path has grown and its delay is the 0 of the full-speed branch) and carries
\* the eta it had when this tick began
FlewLastTick ==
    /\ ReleasedUpdate
    /\ old[last.i].path > 1
    /\ old[last.i].delay = 0
    /\ old[last.i].eta = start[last.i].eta

\* C17: a released physics aircraft that flew at full speed in the tick before,
\* its eta not overwritten since, is in the full-speed branch again: it flies or
\* lands and never holds.
C17_NoFlyThenHold ==
    FlewLastTick =>
        LET o == old[last.i]
            n == plane[last.i]
        IN /\ Dist(o) + tol >= o.eta
           /\ n.delay = 0
           /\ n.path = o.path + 1
           /\ n.landed \/ n.pos # o.pos

\* After minute skip an aircraft that has flown twice at least flies again, its
\* eta left alone in this tick
C17_Witness ==
    /\ FlewLastTick
    /\ ~plane[last.i].landed
    /\ plane[last.i].pos # old[last.i].pos
    /\ old[last.i].path > 2
    /\ TickMinute > skip

\* The physics aircraft updated last landed in that update
LandingUpdate ==
    /\ ReleasedUpdate
    /\ plane[last.i].landed

\* C18: in the tick in which a physics aircraft lands, the eta its hold/fly
\* decision reads (after that tick's scheduling cycle, before the countdown) is
\* less than one minute.
C18_SlotConformance ==
    LandingUpdate => old[last.i].eta < OneMinute

\* An aircraft lands on the slot the oracle assigned to it in this very tick
C18_Witness ==
    /\ LandingUpdate
    /\ IsCadence(TickMinute)
    /\ last.i \in Range(valid)
    /\ old[last.i].pred = 0
    /\ old[last.i].eta = sch[Len(sch)][IndexOf(valid, last.i)]
    /\ old[last.i].eta # start[last.i].eta
    /\ old[last.i].eta > 0

\* Some waypoint of the trail has a time at or before minute m
Reached(trail, m) == \E k \in 1..Len(trail) : trail[k].ts <= m * SEC_PER_MIN

\* pt is the linear interpolation at minute m between two consecutive
\* waypoints of the trail that bracket it
Bracketed(trail, m, pt) ==
    \E k \in 2..Len(trail) :
        LET pt0 == trail[k]
            pt1 == trail[k - 1]
        IN /\ pt0.ts <= m * SEC_PER_MIN
           /\ m * SEC_PER_MIN <= pt1.ts
           /\ pt.ts = m * SEC_PER_MIN
           /\ (pt1.ts - pt0.ts) * (pt.x - pt0.x)
                 = (m * SEC_PER_MIN - pt0.ts) * (pt1.x - pt0.x)

\* C19: get_point(trail, m) is None when no waypoint has been reached by
\* minute m, the terminal waypoint once its time is at or before m, and
\* otherwise the linear interpolation at m between two consecutive waypoints
\* that bracket m.
C19_GetPoint ==
    pc = "returned" =>
        LET trail == plane[1].trail
        IN IF ~Reached(trail, minute) THEN point = None
           ELSE IF trail[1].ts <= minute * SEC_PER_MIN THEN point = <<trail[1]>>
           ELSE point # None /\ Bracketed(trail, minute, point[1])

====
